---- MODULE Spec2Model ----
(***************************************************************************)
(* Model of authority/authority.go: the Authority facade over the          *)
(* smallstep certificate-authority engine (stepAuthority.Authority).       *)
(*                                                                         *)
(* The engine, the identity loader (x509util.LoadIdentityFromDisk) and the *)
(* disk are the environment: the engine's constructor and its operations   *)
(* return any of a small set of results, the disk holds one of a small set *)
(* of key files.  The facade's own code (New, Sign, the pass-through       *)
(* methods) is translated statement by statement.                          *)
(*                                                                         *)
(* New dereferences config (config.Config, line 53): the model covers the  *)
(* calls with a non-nil *Config, as LoadConfiguration returns it.          *)
(***************************************************************************)
EXTENDS Integers, Sequences, FiniteSets, TLC

\* ---------------------------------------------------------------- bounds
MaxOpts == 2        \* longest option list passed to New
MaxSignOpts == 2    \* longest sign-option list passed to Sign / SignSSH
MaxShutdowns == 2   \* Shutdown calls counted in one lifetime

\* ------------------------------------------------------------ Go values
NilErr == "nil"

\* A Go slice built by append from a nil slice.
Append1(s, e) == s \o <<e>>

\* ------------------------------------------------- options passed to New
\* The dynamic type of an Option (interface{}) value: WrapperOption,
\* stepAuthority.Option, or any other type.
OptionTypes == {"WrapperOption", "stepAuthority.Option", "other"}

\* An option value is identified by its position in the list it came in.
OptionLists ==
    UNION { { [i \in 1..n |-> [type |-> t[i], id |-> i]] : t \in [1..n -> OptionTypes] }
            : n \in 0..MaxOpts }

\* Partition with the switch's cases falling back on the engine list: an
\* option of neither type is appended to stepOpts.
RECURSIVE PartitionOtherToStep(_, _, _, _)
PartitionOtherToStep(opts, i, stepOpts, wrapOpts) ==
    IF i > Len(opts)
    THEN [stepOpts |-> stepOpts, wrapOpts |-> wrapOpts]
    ELSE LET o == opts[i] IN
         IF o.type = "WrapperOption"
         THEN PartitionOtherToStep(opts, i + 1, stepOpts, Append1(wrapOpts, o))
         ELSE PartitionOtherToStep(opts, i + 1, Append1(stepOpts, o), wrapOpts)

\* The loop of New (lines 42-51): one switch per element, in order.
RECURSIVE Partition(_, _, _, _)
Partition(opts, i, stepOpts, wrapOpts) ==
    IF i > Len(opts)
    THEN [stepOpts |-> stepOpts, wrapOpts |-> wrapOpts]
    ELSE LET o == opts[i] IN
         CASE o.type = "WrapperOption" ->
                 Partition(opts, i + 1, stepOpts, Append1(wrapOpts, o))
           [] o.type = "stepAuthority.Option" ->
                 Partition(opts, i + 1, Append1(stepOpts, o), wrapOpts)
           [] OTHER ->
                 Partition(opts, i + 1, stepOpts, wrapOpts)

\* ---------------------------------------------------------- Config, disk
\* Passwords are Go strings: sequences of characters.
Passwords == { <<>>, <<"p", "w">> }

CharCode == [c \in {"p", "w", "x"} |-> CASE c = "p" -> 112 [] c = "w" -> 119 [] c = "x" -> 120]

\* []byte(config.Password), line 65.
ToBytes(s) == [i \in 1..Len(s) |-> CharCode[s[i]]]

Configs ==
    { [Config |-> "baseConfig", IntermediateCert |-> "int.crt",
       IntermediateKey |-> "int.key", Password |-> p] : p \in Passwords }

\* What the file at a path holds.
CertFile == [kind |-> "cert", pass |-> <<>>]
KeyFiles ==
    { [kind |-> "plainKey", pass |-> <<>>],
      [kind |-> "encKey", pass |-> <<112, 119>>],
      [kind |-> "encKey", pass |-> <<120>>],
      [kind |-> "missing", pass |-> <<>>] }
Disks == { [p \in {"int.crt", "int.key"} |-> IF p = "int.crt" THEN CertFile ELSE k] : k \in KeyFiles }

NilIdentity == [crt |-> "nil", key |-> "nil"]

\* pemutil.WithPassword(b): one pem option carrying the password bytes.
WithPassword(b) == [opt |-> "WithPassword", pass |-> b]

\* x509util.LoadIdentityFromDisk(crtPath, keyPath, pemOpts...) of the
\* smallstep cli library: reads the certificate, then the key; an encrypted
\* key is decrypted with the password of the pem options.
LoadIdentityFromDisk(d, crtPath, keyPath, pemOpts) ==
    LET crt == d[crtPath]
        key == d[keyPath]
    IN  CASE crt.kind # "cert" -> [identity |-> NilIdentity, err |-> "errReadCert"]
          [] key.kind = "missing" -> [identity |-> NilIdentity, err |-> "errReadKey"]
          [] key.kind = "cert" -> [identity |-> NilIdentity, err |-> "errParseKey"]
          [] key.kind = "plainKey" ->
                 [identity |-> [crt |-> crtPath, key |-> keyPath], err |-> NilErr]
          [] key.kind = "encKey" ->
                 IF pemOpts # <<>> /\ pemOpts[1].pass = key.pass
                 THEN [identity |-> [crt |-> crtPath, key |-> keyPath], err |-> NilErr]
                 ELSE [identity |-> NilIdentity, err |-> "errDecryptKey"]

\* --------------------------------------------------------------- engine
\* stepAuthority.New(config.Config, stepOpts...): the engine's constructor
\* returns a handle or an error.
CtorResults ==
    { [handle |-> "engine", err |-> NilErr],
      [handle |-> "nil", err |-> "errCtorA"],
      [handle |-> "nil", err |-> "errCtorB"] }

\* ------------------------------------------------------------------ New
\* One call received by the engine.
EngineCall(op, args, signOpts, ret) ==
    [op |-> op, args |-> args, signOpts |-> signOpts, ret |-> ret]

\* What calling a WrapperOption (a func(*Authority)) on an Authority would
\* do: here, replace its configuration.
InvokeWrapper(o, a) ==
    [a EXCEPT !.config = [@ EXCEPT !.Config = "configOfWrapper"]]

RECURSIVE InvokeWrappers(_, _, _)
InvokeWrappers(wrapOpts, i, a) ==
    IF i > Len(wrapOpts) THEN a
    ELSE InvokeWrappers(wrapOpts, i + 1, InvokeWrapper(wrapOpts[i], a))

\* New with one slip, named by bug:
\*   "loadsFirst"        the identity is loaded before the constructor's error is looked at
\*   "ignoresLoadErr"    the load's error is not looked at
\*   "invertedPassword"  the password is used when it is empty, not when it is set
\*   "cleansUp"          the engine is shut down when the load fails
\*   "invokesWrappers"   the collected WrapperOptions are invoked on the new Authority
NewBodyWith(config, opts, ctorRes, d, bug) ==
    LET parts == Partition(opts, 1, <<>>, <<>>)
        ctor  == <<[config |-> config.Config, opts |-> parts.stepOpts, res |-> ctorRes]>>
        usePw == IF bug = "invertedPassword"
                 THEN Len(config.Password) = 0
                 ELSE Len(config.Password) > 0
        pemOpts == IF usePw THEN <<WithPassword(ToBytes(config.Password))>> ELSE <<>>
        res == LoadIdentityFromDisk(d, config.IntermediateCert,
                                    config.IntermediateKey, pemOpts)
        load == <<[crt |-> config.IntermediateCert, key |-> config.IntermediateKey,
                   pemOpts |-> pemOpts, res |-> res]>>
        a == [config |-> config, stepAuth |-> ctorRes.handle,
              intermediateIdentity |-> res.identity]
    IN  IF ctorRes.err # NilErr
        THEN [ret |-> <<>>, err |-> ctorRes.err, wrapOpts |-> parts.wrapOpts,
              ctor |-> ctor, loads |-> IF bug = "loadsFirst" THEN load ELSE <<>>,
              engineCalls |-> <<>>]
        ELSE IF res.err # NilErr /\ bug # "ignoresLoadErr"
        THEN [ret |-> <<>>, err |-> res.err, wrapOpts |-> parts.wrapOpts,
              ctor |-> ctor, loads |-> load,
              engineCalls |-> IF bug = "cleansUp"
                              THEN <<EngineCall("Shutdown", <<>>, <<>>,
                                                [val |-> "nil", err |-> NilErr])>>
                              ELSE <<>>]
        ELSE [ret |-> <<IF bug = "invokesWrappers"
                        THEN InvokeWrappers(parts.wrapOpts, 1, a) ELSE a>>,
              err |-> NilErr, wrapOpts |-> parts.wrapOpts,
              ctor |-> ctor, loads |-> load, engineCalls |-> <<>>]

NewBodyLoadsFirst(config, opts, ctorRes, d) ==
    NewBodyWith(config, opts, ctorRes, d, "loadsFirst")
NewBodyIgnoresLoadErr(config, opts, ctorRes, d) ==
    NewBodyWith(config, opts, ctorRes, d, "ignoresLoadErr")
NewBodyInvertedPassword(config, opts, ctorRes, d) ==
    NewBodyWith(config, opts, ctorRes, d, "invertedPassword")
NewBodyCleansUp(config, opts, ctorRes, d) ==
    NewBodyWith(config, opts, ctorRes, d, "cleansUp")
NewBodyInvokesWrappers(config, opts, ctorRes, d) ==
    NewBodyWith(config, opts, ctorRes, d, "invokesWrappers")

\* New (lines 41-82) as a function of its arguments and of what the engine
\* constructor and the disk answer.  ret is the returned *Authority (<<>>
\* for nil, <<a>> for &a); ctor, loads and engineCalls are the calls New made
\* to the engine's constructor, to the identity loader and to the engine.
NewBody(config, opts, ctorRes, d) ==
    LET parts == Partition(opts, 1, <<>>, <<>>)
        ctor  == <<[config |-> config.Config, opts |-> parts.stepOpts, res |-> ctorRes]>>
    IN  IF ctorRes.err # NilErr
        THEN [ret |-> <<>>, err |-> ctorRes.err, wrapOpts |-> parts.wrapOpts,
              ctor |-> ctor, loads |-> <<>>, engineCalls |-> <<>>]
        ELSE LET pemOpts == IF Len(config.Password) > 0
                            THEN <<WithPassword(ToBytes(config.Password))>>
                            ELSE <<>>
                 res == LoadIdentityFromDisk(d, config.IntermediateCert,
                                             config.IntermediateKey, pemOpts)
                 load == <<[crt |-> config.IntermediateCert, key |-> config.IntermediateKey,
                            pemOpts |-> pemOpts, res |-> res]>>
             IN  IF res.err # NilErr
                 THEN [ret |-> <<>>, err |-> res.err, wrapOpts |-> parts.wrapOpts,
                       ctor |-> ctor, loads |-> load, engineCalls |-> <<>>]
                 ELSE [ret |-> <<[config |-> config, stepAuth |-> ctorRes.handle,
                                  intermediateIdentity |-> res.identity]>>,
                       err |-> NilErr, wrapOpts |-> parts.wrapOpts,
                       ctor |-> ctor, loads |-> load, engineCalls |-> <<>>]

\* --------------------------------------------------------- sign options
\* A provisioner.SignOption is interface{}: a marker of the alternate (OCF)
\* flow, any other option, or (as any Go value can be) a whole
\* []provisioner.SignOption slice stored in one interface value.
OcfOpt == [kind |-> "ocf", elems |-> <<>>]
PlainOpt == [kind |-> "plain", elems |-> <<>>]
SliceOpt(s) == [kind |-> "slice", elems |-> s]

SignOptLists ==
    UNION { [1..n -> {OcfOpt, PlainOpt}] : n \in 0..MaxSignOpts }

\* a.isOCF(signOpts): true iff at least one element is the OCF marker.
isOCF(signOpts) == \E i \in 1..Len(signOpts) : signOpts[i].kind = "ocf"

\* ------------------------------------------------- results of the engine
\* What an engine operation returns: its value(s) and its error.  The
\* operations without an error result return a value only.
NoErrorOps == {"GetDatabase", "GetTLSOptions", "GetRootCertificates"}

EngineReturns(op) ==
    IF op \in NoErrorOps
    THEN { [val |-> "v1", err |-> "none"], [val |-> "v2", err |-> "none"] }
    ELSE { [val |-> "v1", err |-> NilErr], [val |-> "v2", err |-> NilErr],
           [val |-> "nil", err |-> "errEngine"] }

\* What the alternate entrypoint a.OCFSign returns.
OCFReturns ==
    { [val |-> "ocf1", err |-> NilErr], [val |-> "nil", err |-> "errOCF"] }

\* ------------------------------------------------------ facade methods
\* What one facade call did: the calls it made to the engine, the calls it
\* made to OCFSign, and what it returned.

\* A pass-through that calls the engine a second time when the first call
\* fails.
PassThroughRetries(op, args, engineRet) ==
    [engineCalls |-> IF engineRet.err = "errEngine"
                     THEN <<EngineCall(op, args, <<>>, engineRet),
                            EngineCall(op, args, <<>>, engineRet)>>
                     ELSE <<EngineCall(op, args, <<>>, engineRet)>>,
     ocfCalls |-> <<>>,
     ret |-> engineRet]

\* return a.stepAuth.<op>(args...) (lines 86-164).
PassThrough(op, args, engineRet) ==
    [engineCalls |-> <<EngineCall(op, args, <<>>, engineRet)>>,
     ocfCalls |-> <<>>,
     ret |-> engineRet]

\* Sign without the isOCF branch: every request goes to the engine.
SignBodyAlwaysStandard(args, signOpts, engineRet, ocfRet) ==
    [engineCalls |-> <<EngineCall("Sign", args, signOpts, engineRet)>>,
     ocfCalls |-> <<>>,
     ret |-> engineRet]

\* Sign (lines 111-116).
SignBody(args, signOpts, engineRet, ocfRet) ==
    IF isOCF(signOpts)
    THEN [engineCalls |-> <<>>,
          ocfCalls |-> <<EngineCall("OCFSign", args, signOpts, ocfRet)>>,
          ret |-> ocfRet]
    ELSE [engineCalls |-> <<EngineCall("Sign", args, signOpts, engineRet)>>,
          ocfCalls |-> <<>>,
          ret |-> engineRet]

\* SignSSH (lines 154-156): signOpts is passed as one argument, without
\* "...", to the engine's variadic signOpts ...provisioner.SignOption; the
\* engine's parameter is then a one-element slice holding the caller's slice.
SignSSHBody(args, signOpts, engineRet) ==
    [engineCalls |-> <<EngineCall("SignSSH", args, <<SliceOpt(signOpts)>>, engineRet)>>,
     ocfCalls |-> <<>>,
     ret |-> engineRet]

\* ---------------------------------------------------------------- state
VARIABLES
    disk,          \* the files at the configured paths
    phase,         \* "unconstructed", "constructed" or "failed"
    newArgs,       \* <<>> or <<[config, opts]>>: the arguments New was called with
    newOut,        \* what New did and returned (NewBody)
    engine,        \* [constructed, shutdowns]: times the engine was built / shut down
    shutdownCalls, \* times the facade's Shutdown was called
    lastCall,      \* the last facade method call and what it did
    prevPath       \* the path of the Sign call before the last Sign call, or "none"

vars == <<disk, phase, newArgs, newOut, engine, shutdownCalls, lastCall, prevPath>>

NoOut == [ret |-> <<>>, err |-> NilErr, wrapOpts |-> <<>>, ctor |-> <<>>, loads |-> <<>>,
          engineCalls |-> <<>>]
NoCall == [op |-> "none", args |-> <<>>, signOpts |-> <<>>,
           engineCalls |-> <<>>, ocfCalls |-> <<>>, ret |-> [val |-> "nil", err |-> "none"]]

Init ==
    /\ disk \in Disks
    /\ phase = "unconstructed"
    /\ newArgs = <<>>
    /\ newOut = NoOut
    /\ engine = [constructed |-> 0, shutdowns |-> 0]
    /\ shutdownCalls = 0
    /\ lastCall = NoCall
    /\ prevPath = "none"

\* One call New(config, opts...) (lines 41-82), its option list drawn from
\* lists.
NewWith(lists) ==
    /\ phase = "unconstructed"
    /\ \E config \in Configs, opts \in lists, ctorRes \in CtorResults :
         LET out == NewBody(config, opts, ctorRes, disk) IN
         /\ newArgs' = <<[config |-> config, opts |-> opts]>>
         /\ newOut' = out
         /\ phase' = IF out.ret # <<>> THEN "constructed" ELSE "failed"
         /\ engine' = [constructed |-> engine.constructed
                           + Cardinality({i \in 1..Len(out.ctor) : out.ctor[i].res.err = NilErr}),
                        shutdowns |-> engine.shutdowns
                           + Cardinality({i \in 1..Len(out.engineCalls) :
                                             out.engineCalls[i].op = "Shutdown"})]
    /\ UNCHANGED <<disk, shutdownCalls, lastCall, prevPath>>

\* New called with any option list.
New == NewWith(OptionLists)

\* New called with one of the option lists of at most one element: the
\* construction that starts a lifetime of facade calls.
NewFacade == NewWith({ol \in OptionLists : Len(ol) <= 1})

\* The issuance path a recorded call took.
PathOf(call) ==
    IF call.ocfCalls # <<>> THEN "ocf"
    ELSE IF call.engineCalls # <<>> THEN "standard" ELSE "none"

\* A facade method call on the *Authority New returned; did is what the
\* method body did.  Engine shutdowns are the Shutdown calls the engine got.
Call(op, args, signOpts, did) ==
    /\ phase = "constructed"
    /\ lastCall' = [op |-> op, args |-> args, signOpts |-> signOpts,
                    engineCalls |-> did.engineCalls, ocfCalls |-> did.ocfCalls,
                    ret |-> did.ret]
    /\ prevPath' = IF op = "Sign" /\ lastCall.op = "Sign"
                   THEN PathOf(lastCall)
                   ELSE prevPath
    /\ engine' = [engine EXCEPT !.shutdowns =
                     @ + Cardinality({i \in 1..Len(did.engineCalls) :
                                         did.engineCalls[i].op = "Shutdown"})]
    /\ shutdownCalls' = IF op = "Shutdown" THEN shutdownCalls + 1 ELSE shutdownCalls
    /\ UNCHANGED <<disk, phase, newArgs, newOut>>

\* GetDatabase (lines 86-88).
GetDatabase ==
    \E r \in EngineReturns("GetDatabase") :
        Call("GetDatabase", <<>>, <<>>, PassThrough("GetDatabase", <<>>, r))

\* Shutdown with a guard of the facade's own: the engine is shut down by
\* the first call only.
ShutdownGuarded ==
    /\ shutdownCalls < MaxShutdowns
    /\ \E r \in EngineReturns("Shutdown") :
        Call("Shutdown", <<>>, <<>>,
             IF engine.shutdowns > 0
             THEN [engineCalls |-> <<>>, ocfCalls |-> <<>>, ret |-> [val |-> "v1", err |-> NilErr]]
             ELSE PassThrough("Shutdown", <<>>, r))

\* Shutdown (lines 91-93).
Shutdown ==
    /\ shutdownCalls < MaxShutdowns
    /\ \E r \in EngineReturns("Shutdown") :
        Call("Shutdown", <<>>, <<>>, PassThrough("Shutdown", <<>>, r))

\* Authorize (lines 95-97).
Authorize ==
    \E r \in EngineReturns("Authorize") :
        Call("Authorize", <<"ctx", "ott">>, <<>>, PassThrough("Authorize", <<"ctx", "ott">>, r))

\* AuthorizeSign (lines 99-101).
AuthorizeSign ==
    \E r \in EngineReturns("AuthorizeSign") :
        Call("AuthorizeSign", <<"ott">>, <<>>, PassThrough("AuthorizeSign", <<"ott">>, r))

\* GetTLSOptions (lines 103-105).
GetTLSOptions ==
    \E r \in EngineReturns("GetTLSOptions") :
        Call("GetTLSOptions", <<>>, <<>>, PassThrough("GetTLSOptions", <<>>, r))

\* Root (lines 107-109).
Root ==
    \E r \in EngineReturns("Root") :
        Call("Root", <<"shasum">>, <<>>, PassThrough("Root", <<"shasum">>, r))

\* Sign (lines 111-116).
Sign ==
    \E signOpts \in SignOptLists, r \in EngineReturns("Sign"), ro \in OCFReturns :
        Call("Sign", <<"cr", "opts">>, signOpts, SignBody(<<"cr", "opts">>, signOpts, r, ro))

\* Renew (lines 118-120).
Renew ==
    \E r \in EngineReturns("Renew") :
        Call("Renew", <<"peer">>, <<>>, PassThrough("Renew", <<"peer">>, r))

\* LoadProvisionerByCertificate (lines 122-124).
LoadProvisionerByCertificate ==
    \E r \in EngineReturns("LoadProvisionerByCertificate") :
        Call("LoadProvisionerByCertificate", <<"c">>, <<>>,
             PassThrough("LoadProvisionerByCertificate", <<"c">>, r))

\* LoadProvisionerByID (lines 126-128).
LoadProvisionerByID ==
    \E r \in EngineReturns("LoadProvisionerByID") :
        Call("LoadProvisionerByID", <<"ID">>, <<>>,
             PassThrough("LoadProvisionerByID", <<"ID">>, r))

\* GetProvisioners (lines 130-132).
GetProvisioners ==
    \E r \in EngineReturns("GetProvisioners") :
        Call("GetProvisioners", <<"cursor", "limit">>, <<>>,
             PassThrough("GetProvisioners", <<"cursor", "limit">>, r))

\* Revoke (lines 134-136).
Revoke ==
    \E r \in EngineReturns("Revoke") :
        Call("Revoke", <<"revokeOpts">>, <<>>, PassThrough("Revoke", <<"revokeOpts">>, r))

\* GetEncryptedKey (lines 138-140).
GetEncryptedKey ==
    \E r \in EngineReturns("GetEncryptedKey") :
        Call("GetEncryptedKey", <<"kid">>, <<>>, PassThrough("GetEncryptedKey", <<"kid">>, r))

\* GetRoots (lines 142-144).
GetRoots ==
    \E r \in EngineReturns("GetRoots") :
        Call("GetRoots", <<>>, <<>>, PassThrough("GetRoots", <<>>, r))

\* GetFederation (lines 146-148).
GetFederation ==
    \E r \in EngineReturns("GetFederation") :
        Call("GetFederation", <<>>, <<>>, PassThrough("GetFederation", <<>>, r))

\* GetTLSCertificate (lines 150-152).
GetTLSCertificate ==
    \E r \in EngineReturns("GetTLSCertificate") :
        Call("GetTLSCertificate", <<>>, <<>>, PassThrough("GetTLSCertificate", <<>>, r))

\* SignSSH (lines 154-156).
SignSSH ==
    \E signOpts \in SignOptLists, r \in EngineReturns("SignSSH") :
        Call("SignSSH", <<"key", "sshOpts">>, signOpts,
             SignSSHBody(<<"key", "sshOpts">>, signOpts, r))

\* GetRootCertificates (lines 158-160).
GetRootCertificates ==
    \E r \in EngineReturns("GetRootCertificates") :
        Call("GetRootCertificates", <<>>, <<>>, PassThrough("GetRootCertificates", <<>>, r))

\* SignSSHAddUser (lines 162-164).
SignSSHAddUser ==
    \E r \in EngineReturns("SignSSHAddUser") :
        Call("SignSSHAddUser", <<"key", "subject">>, <<>>,
             PassThrough("SignSSHAddUser", <<"key", "subject">>, r))

Next ==
    \/ NewFacade
    \/ GetDatabase
    \/ Shutdown
    \/ Authorize
    \/ AuthorizeSign
    \/ GetTLSOptions
    \/ Root
    \/ Sign
    \/ Renew
    \/ LoadProvisionerByCertificate
    \/ LoadProvisionerByID
    \/ GetProvisioners
    \/ Revoke
    \/ GetEncryptedKey
    \/ GetRoots
    \/ GetFederation
    \/ GetTLSCertificate
    \/ SignSSH
    \/ GetRootCertificates
    \/ SignSSHAddUser

\* The lifetime of one facade: its construction, then any calls.
Spec == Init /\ [][Next]_vars

\* The construction alone, over every option list.
SpecNew == Init /\ [][New]_vars

\* ================================================================ claims

\* The elements of opts of type ty, in the order of opts.
OfType(opts, ty) == SelectSeq(opts, LAMBDA o : o.type = ty)

\* part holds exactly the elements of opts of type ty, each once, in the
\* order they have in opts (an element's id is its position in opts).
ExactlyInOrder(part, opts, ty) ==
    /\ \A k \in 1..Len(part) :
          /\ part[k].type = ty
          /\ part[k].id \in 1..Len(opts)
          /\ opts[part[k].id] = part[k]
    /\ \A k \in 1..(Len(part) - 1) : part[k].id < part[k + 1].id
    /\ \A i \in 1..Len(opts) :
          opts[i].type = ty => \E k \in 1..Len(part) : part[k] = opts[i]

\* The error New reports when only the constructor and the loader can fail.
ErrOfCalls(out) ==
    IF out.ctor[1].res.err # NilErr THEN out.ctor[1].res.err
    ELSE out.loads[1].res.err

\* C1: whatever option list New is called with, the engine constructor is
\* called with exactly the stepAuthority.Option elements in their original
\* order, the WrapperOption elements are collected in their original order,
\* and an option of neither type reaches neither list and is no cause of
\* failure: New's error is the constructor's or the loader's.
C1_OptionPartition ==
    newArgs # <<>> =>
        /\ Len(newOut.ctor) = 1
        /\ ExactlyInOrder(newOut.ctor[1].opts, newArgs[1].opts, "stepAuthority.Option")
        /\ ExactlyInOrder(newOut.wrapOpts, newArgs[1].opts, "WrapperOption")
        /\ newOut.err = ErrOfCalls(newOut)

C1_Witness ==
    /\ phase = "constructed"
    /\ \E i \in 1..Len(newArgs[1].opts) : newArgs[1].opts[i].type = "other"
    /\ Len(newOut.ctor[1].opts) = 1
    /\ Len(newArgs[1].opts) = MaxOpts

\* C3: when the engine constructor returns an error, New returns that error
\* and no facade, and has made no identity load of either kind.
C3_NoLoadAfterCtorError ==
    (newArgs # <<>> /\ newOut.ctor[1].res.err # NilErr) =>
        /\ newOut.ret = <<>>
        /\ newOut.err = newOut.ctor[1].res.err
        /\ newOut.loads = <<>>

C3_Witness ==
    /\ phase = "failed"
    /\ newOut.ctor[1].res.err = "errCtorB"
    /\ disk["int.key"].kind = "plainKey"

\* C4: New returns a facade iff the constructor and the identity load both
\* succeeded; the facade then holds the constructor's handle and the loaded
\* identity; when the load fails New returns no facade and the load's error.
C4_FacadeIffBothSucceed ==
    newArgs # <<>> =>
        /\ (newOut.ret # <<>>) <=>
               (/\ newOut.ctor[1].res.err = NilErr
                /\ Len(newOut.loads) = 1
                /\ newOut.loads[1].res.err = NilErr)
        /\ newOut.ret # <<>> =>
               /\ newOut.err = NilErr
               /\ newOut.ret[1].stepAuth = newOut.ctor[1].res.handle
               /\ newOut.ret[1].stepAuth # "nil"
               /\ newOut.ret[1].intermediateIdentity = newOut.loads[1].res.identity
               /\ newOut.ret[1].intermediateIdentity # NilIdentity
        /\ (newOut.loads # <<>> /\ newOut.loads[1].res.err # NilErr) =>
               /\ newOut.ret = <<>>
               /\ newOut.err = newOut.loads[1].res.err

C4_Witness ==
    /\ phase = "failed"
    /\ newOut.ctor[1].res.err = NilErr
    /\ newOut.err = "errReadKey"

\* C5: when the constructor succeeds New makes one identity load, from the
\* configured certificate and key paths, with the password option iff the
\* configured password is not empty (and then with that password's bytes);
\* an encrypted key with an empty password fails the construction, an
\* encrypted key with its own password does not.
C5_PasswordDecidesLoad ==
    (newArgs # <<>> /\ newOut.ctor[1].res.err = NilErr) =>
        LET config == newArgs[1].config
            key == disk[config.IntermediateKey]
        IN  /\ Len(newOut.loads) = 1
            /\ newOut.loads[1].crt = config.IntermediateCert
            /\ newOut.loads[1].key = config.IntermediateKey
            /\ (config.Password # <<>>) <=>
                   (/\ Len(newOut.loads[1].pemOpts) = 1
                    /\ newOut.loads[1].pemOpts[1].opt = "WithPassword"
                    /\ newOut.loads[1].pemOpts[1].pass = ToBytes(config.Password))
            /\ (config.Password = <<>>) <=> (newOut.loads[1].pemOpts = <<>>)
            /\ (key.kind = "encKey" /\ config.Password = <<>>) =>
                   (newOut.ret = <<>> /\ newOut.err # NilErr)
            /\ (key.kind = "encKey" /\ config.Password # <<>>
                   /\ key.pass = ToBytes(config.Password)) =>
                   (newOut.ret # <<>> /\ newOut.err = NilErr)

C5_Witness ==
    /\ phase = "constructed"
    /\ disk["int.key"].kind = "encKey"
    /\ newOut.loads[1].pemOpts = <<[opt |-> "WithPassword", pass |-> <<112, 119>>]>>

\* C9: when the identity load fails after the constructor succeeded, New
\* returns the load's error and no facade and makes no call to the engine:
\* the engine stays constructed and not shut down.
C9_NoCleanupOnLoadFailure ==
    (newArgs # <<>> /\ newOut.ctor[1].res.err = NilErr
        /\ newOut.loads # <<>> /\ newOut.loads[1].res.err # NilErr) =>
        /\ newOut.ret = <<>>
        /\ newOut.err = newOut.loads[1].res.err
        /\ newOut.engineCalls = <<>>
        /\ phase = "failed"
        /\ engine = [constructed |-> 1, shutdowns |-> 0]
        /\ lastCall = NoCall

C9_Witness ==
    /\ phase = "failed"
    /\ newOut.ctor[1].res.handle = "engine"
    /\ newOut.err = "errDecryptKey"
    /\ engine.constructed = 1

PassThroughOps ==
    {"Authorize", "AuthorizeSign", "Root", "Renew", "LoadProvisionerByCertificate",
     "LoadProvisionerByID", "GetProvisioners", "Revoke", "GetEncryptedKey", "GetRoots",
     "GetFederation", "GetTLSCertificate", "SignSSH", "SignSSHAddUser",
     "GetRootCertificates", "GetTLSOptions", "GetDatabase", "Shutdown"}

\* C2: after any sequence of facade calls, the last Sign call went to OCFSign
\* and not to the engine if isOCF holds of its sign options, and to the
\* engine's Sign and not to OCFSign, with the same request, options and sign
\* options, if it does not: the path is a function of the call's sign options.
C2_SignDispatch ==
    lastCall.op = "Sign" =>
        IF isOCF(lastCall.signOpts)
        THEN /\ lastCall.engineCalls = <<>>
             /\ Len(lastCall.ocfCalls) = 1
             /\ lastCall.ocfCalls[1].op = "OCFSign"
             /\ lastCall.ocfCalls[1].args = lastCall.args
             /\ lastCall.ocfCalls[1].signOpts = lastCall.signOpts
        ELSE /\ lastCall.ocfCalls = <<>>
             /\ Len(lastCall.engineCalls) = 1
             /\ lastCall.engineCalls[1].op = "Sign"
             /\ lastCall.engineCalls[1].args = lastCall.args
             /\ lastCall.engineCalls[1].signOpts = lastCall.signOpts

\* A Sign call with the marker in last place, after a Sign call that took the
\* standard path and after a Shutdown.
C2_Witness ==
    /\ lastCall.op = "Sign"
    /\ Len(lastCall.signOpts) = MaxSignOpts
    /\ lastCall.signOpts[1].kind = "plain"
    /\ lastCall.signOpts[MaxSignOpts].kind = "ocf"
    /\ PathOf(lastCall) = "ocf"
    /\ prevPath = "standard"
    /\ shutdownCalls > 0

\* C6: a call of a pass-through method, or of Sign on the standard path,
\* makes exactly one call to the engine, to the method of the same name, and
\* returns what that call returned.
C6_TransparentDelegation ==
    (lastCall.op \in PassThroughOps
        \/ (lastCall.op = "Sign" /\ ~isOCF(lastCall.signOpts))) =>
        /\ Len(lastCall.engineCalls) = 1
        /\ lastCall.engineCalls[1].op = lastCall.op
        /\ lastCall.ret = lastCall.engineCalls[1].ret
        /\ lastCall.ocfCalls = <<>>

C6_Witness ==
    /\ lastCall.op = "Revoke"
    /\ lastCall.ret = [val |-> "nil", err |-> "errEngine"]
    /\ lastCall.engineCalls[1].ret.err = "errEngine"

\* C7 as claimed: over any sequence of facade calls, repeated Shutdown calls
\* included, the engine is constructed once and shut down exactly once.
C7_ShutdownExactlyOnce ==
    (phase = "constructed" /\ shutdownCalls >= 1) =>
        /\ engine.constructed = 1
        /\ engine.shutdowns = 1

\* C7 as amended: the engine is constructed once, and it is shut down once
\* per Shutdown call of the facade, which adds no guard of its own.
C7_ShutdownPerCall ==
    phase = "constructed" =>
        /\ engine.constructed = 1
        /\ engine.shutdowns = shutdownCalls

C7_Witness ==
    /\ shutdownCalls = MaxShutdowns
    /\ engine.shutdowns = MaxShutdowns
    /\ lastCall.op = "Shutdown"

\* C8 as claimed: the sign options the engine's SignSSH receives are the
\* sign options the caller passed: same length, same elements, same order.
C8_SignSSHForwardsSignOpts ==
    lastCall.op = "SignSSH" =>
        /\ Len(lastCall.engineCalls) = 1
        /\ Len(lastCall.engineCalls[1].signOpts) = Len(lastCall.signOpts)
        /\ lastCall.engineCalls[1].signOpts = lastCall.signOpts

====
